---------------------------- MODULE Spec2Model ----------------------------
(***************************************************************************)
(* web3-wallet: the per-wallet state store (createWalletStoreAndActions)   *)
(* and the wallet proxy (createWalletProxy).                                *)
(*                                                                         *)
(* An optional JavaScript value is modelled as a set with at most one      *)
(* element: Undefined is {}, a defined value v is {v}.                     *)
(***************************************************************************)
EXTENDS Integers, Sequences, FiniteSets, Bags, TLC

(***************************************************************************)
(* Bounds of the model                                                     *)
(***************************************************************************)
\* the nullifier counter is not incremented past this value
MaxNullifier == 3
\* longest accounts array handed to update
MaxAccounts == 2
\* delegated connector calls that may be awaiting their result at one time
MaxInFlight == 2
\* largest value Date.now() returns
MaxClock == 2

Undefined == {}
Some(v) == {v}
Get(o) == CHOOSE v \in o : TRUE

\* a ?? b
Coalesce(a, b) == IF a # Undefined THEN a ELSE b

(***************************************************************************)
(* Inputs of update                                                        *)
(***************************************************************************)
ChainIdInputs == {-1, 0, 1, 2}
AccountInputs == {"0xAa", "nonsense"}
WellFormedAccounts == {"0xAa"}
AccountsInputs == UNION {[1..n -> AccountInputs] : n \in 0..MaxAccounts}
StateUpdates ==
  [chainId : {Undefined} \cup {Some(c) : c \in ChainIdInputs},
   accounts : {Undefined} \cup {Some(a) : a \in AccountsInputs}]

(***************************************************************************)
(* ./utils (validateChainId, validateAccount): TRUE when the call returns, *)
(* FALSE when it throws; validateAccount returns the account it accepts.   *)
(***************************************************************************)
validateChainId(chainId) == chainId \in Int /\ chainId > 0
validateAccountAccepts(account) == account \in WellFormedAccounts
validateAccount(account) == account

VARIABLES
  \* ---- createWalletStoreAndActions ----
  walletState,   \* store.getState(): [chainId, accounts, isConnecting]
  nullifier,     \* let nullifier
  closures,      \* the endConnection closures returned so far: [id, nullifierCached]
  invoked,       \* ids of the closures that have been invoked at least once
  starts,        \* number of startConnection calls so far (id of the latest closure)
  touched,       \* an update succeeded or resetState ran since the latest startConnection
  mutated,       \* an update succeeded or resetState ran at some time
  mutations,     \* number of updates that succeeded and resetState calls so far
  rejected,      \* an update threw since the latest startConnection
  storeLast,     \* the most recent store call: its name, argument, outcome and pre-state
  \* ---- createWalletProxy ----
  wallets,       \* the wallets argument: the registered wallets' names, in order
  proxy,         \* "created", or "threw" when createWalletProxy threw
  proxyState,    \* useStore.getState(): [currentWallet, connectionId]
  storage,       \* what the persist middleware has saved under options.key
  memo,          \* per component, the useMemo cell of useCurrentWallet: [dep, value]
  held,          \* per component, the function its last useConnect/... call returned
  inFlight,      \* the bag of delegated connector calls awaiting their result
  raced,         \* whether the latest connect, autoConnect or disconnect was invoked
                 \* with its opposite in flight, and which of the two came first
  clock,         \* Date.now()
  lastDone,      \* the connect/autoConnect/disconnect that last settled successfully,
                 \* counting the session that saved the persisted state
  proxyLast      \* the most recent proxy call: its name, arguments, result and pre-state

storeVars ==
  <<walletState, nullifier, closures, invoked, starts, touched, mutated, mutations,
    rejected, storeLast>>

proxyVars ==
  <<wallets, proxy, proxyState, storage, memo, held, inFlight, raced, clock, lastDone,
    proxyLast>>

vars == <<storeVars, proxyVars>>

(***************************************************************************)
(* createWalletStoreAndActions                                             *)
(***************************************************************************)
DEFAULT_WALLET_STATE ==
  [chainId |-> Undefined, accounts |-> Undefined, isConnecting |-> FALSE]

\* zustand setState(partial): the fields of partial replace those of the state
setState(state, partial) ==
  [k \in DOMAIN state |-> IF k \in DOMAIN partial THEN partial[k] ELSE state[k]]

NoUpdate == [chainId |-> Undefined, accounts |-> Undefined]

StoreCall(op, id, stateUpdate, threw) ==
  [op |-> op, id |-> id, stateUpdate |-> stateUpdate, threw |-> threw,
   pre |-> walletState, preNullifier |-> nullifier, preTouched |-> touched,
   preInvoked |-> invoked, preRejected |-> rejected]

InitStore ==
  /\ walletState = DEFAULT_WALLET_STATE
  /\ nullifier = 0
  /\ closures = {}
  /\ invoked = {}
  /\ starts = 0
  /\ touched = FALSE
  /\ mutated = FALSE
  /\ mutations = 0
  /\ rejected = FALSE
  /\ storeLast = [op |-> "create", id |-> 0, stateUpdate |-> NoUpdate, threw |-> FALSE,
                  pre |-> DEFAULT_WALLET_STATE, preNullifier |-> 0,
                  preTouched |-> FALSE, preInvoked |-> {}, preRejected |-> FALSE]

\* const nullifierCached = ++nullifier; store.setState({ isConnecting: true })
startConnection ==
  /\ nullifier < MaxNullifier
  /\ nullifier' = nullifier + 1
  /\ walletState' = setState(walletState, [isConnecting |-> TRUE])
  /\ closures' = closures \cup {[id |-> starts + 1, nullifierCached |-> nullifier + 1,
                                 mutationsAtStart |-> mutations]}
  /\ starts' = starts + 1
  /\ touched' = FALSE
  /\ rejected' = FALSE
  /\ storeLast' = StoreCall("startConnection", starts + 1, NoUpdate, FALSE)
  /\ UNCHANGED <<proxyVars, invoked, mutated, mutations>>

\* if (nullifier === nullifierCached)
EndConnectionAlwaysClears(current, nullifierCached) == TRUE
EndConnectionClearsUnlessNewer(current, nullifierCached) == current >= nullifierCached
EndConnectionClears(current, nullifierCached) == current = nullifierCached

\* the closure endConnection returned by startConnection
endConnection(c) ==
  /\ c \in closures
  /\ walletState' = IF EndConnectionClears(nullifier, c.nullifierCached)
                    THEN setState(walletState, [isConnecting |-> FALSE])
                    ELSE walletState
  /\ invoked' = invoked \cup {c.id}
  /\ storeLast' = StoreCall("endConnection", c.id, NoUpdate, FALSE)
  /\ UNCHANGED <<proxyVars, nullifier, closures, starts, touched, mutated, mutations,
                 rejected>>

\* the two validation blocks of update: TRUE when one of them throws
UpdateThrowsChainIdOnly(stateUpdate) ==
  stateUpdate.chainId # Undefined /\ ~validateChainId(Get(stateUpdate.chainId))
UpdateThrows(stateUpdate) ==
  \/ /\ stateUpdate.chainId # Undefined
     /\ ~validateChainId(Get(stateUpdate.chainId))
  \/ /\ stateUpdate.accounts # Undefined
     /\ \E i \in DOMAIN Get(stateUpdate.accounts) :
          ~validateAccountAccepts(Get(stateUpdate.accounts)[i])

\* stateUpdate.accounts[i] = validateAccount(stateUpdate.accounts[i])
ValidatedUpdate(stateUpdate) ==
  [chainId |-> stateUpdate.chainId,
   accounts |-> IF stateUpdate.accounts = Undefined THEN Undefined
                ELSE Some([i \in DOMAIN Get(stateUpdate.accounts) |->
                             validateAccount(Get(stateUpdate.accounts)[i])])]

\* JavaScript truthiness of an optional number and of an optional array
TruthyNumber(n) == n # Undefined /\ Get(n) # 0
TruthyArray(a) == a # Undefined

\* the function handed to store.setState by update
UpdateReducerKeepsConnecting(stateUpdate, existingState) ==
  [chainId |-> Coalesce(stateUpdate.chainId, existingState.chainId),
   accounts |-> Coalesce(stateUpdate.accounts, existingState.accounts),
   isConnecting |->
     IF /\ existingState.isConnecting
        /\ TruthyNumber(stateUpdate.chainId)
        /\ TruthyArray(stateUpdate.accounts)
     THEN FALSE ELSE existingState.isConnecting]
UpdateReducerDropsMissing(stateUpdate, existingState) ==
  [chainId |-> stateUpdate.chainId,
   accounts |-> stateUpdate.accounts,
   isConnecting |->
     IF /\ existingState.isConnecting
        /\ TruthyNumber(Coalesce(stateUpdate.chainId, existingState.chainId))
        /\ TruthyArray(Coalesce(stateUpdate.accounts, existingState.accounts))
     THEN FALSE ELSE existingState.isConnecting]
UpdateReducer(stateUpdate, existingState) ==
  LET chainId == Coalesce(stateUpdate.chainId, existingState.chainId)
      accounts == Coalesce(stateUpdate.accounts, existingState.accounts)
      isConnecting ==
        IF existingState.isConnecting /\ TruthyNumber(chainId) /\ TruthyArray(accounts)
        THEN FALSE ELSE existingState.isConnecting
  IN [chainId |-> chainId, accounts |-> accounts, isConnecting |-> isConnecting]

\* nullifier++ stands after the two validation blocks: a call that throws in
\* one of them does not reach it
NullifierBumpedFirst(current, threw) == current + 1
NullifierAfterUpdate(current, threw) == IF threw THEN current ELSE current + 1

update(stateUpdate) ==
  /\ stateUpdate \in StateUpdates
  /\ IF UpdateThrows(stateUpdate)
     THEN /\ nullifier' = NullifierAfterUpdate(nullifier, TRUE)
          /\ rejected' = TRUE
          /\ storeLast' = StoreCall("update", 0, stateUpdate, TRUE)
          /\ UNCHANGED <<walletState, touched, mutated, mutations>>
     ELSE /\ nullifier < MaxNullifier
          /\ nullifier' = NullifierAfterUpdate(nullifier, FALSE)
          /\ walletState' =
               setState(walletState, UpdateReducer(ValidatedUpdate(stateUpdate), walletState))
          /\ touched' = TRUE
          /\ mutated' = TRUE
          /\ mutations' = mutations + 1
          /\ storeLast' = StoreCall("update", 0, stateUpdate, FALSE)
          /\ UNCHANGED rejected
  /\ UNCHANGED <<proxyVars, closures, invoked, starts>>

\* nullifier++; store.setState(DEFAULT_WALLET_STATE)
resetState ==
  /\ nullifier < MaxNullifier
  /\ nullifier' = nullifier + 1
  /\ walletState' = setState(walletState, DEFAULT_WALLET_STATE)
  /\ touched' = TRUE
  /\ mutated' = TRUE
  /\ mutations' = mutations + 1
  /\ storeLast' = StoreCall("resetState", 0, NoUpdate, FALSE)
  /\ UNCHANGED <<proxyVars, closures, invoked, starts, rejected>>


(***************************************************************************)
(* createWalletProxy                                                       *)
(***************************************************************************)
\* the wallets argument; a wallet is identified by its name, which is unique
WalletsInputs == {<<>>, <<"MetaMask", "WalletConnect", "Coinbase">>}
\* a name no wallet list registers
Unregistered == "Ledger"
\* options.defaultCurrentWallet; "" stands for an option that is not given
DefaultCurrentWalletInputs == {"", "WalletConnect", Unregistered}
\* what an earlier session left under options.key, if anything
PersistedInputs ==
  {Undefined, Some([currentWallet |-> Unregistered, connectionId |-> Some(1)])}
\* Object.keys(wallets[0].hooks).sort(), two of the eight hooks of Wallet['hooks']
HookNames == <<"useAccounts", "useChainId">>
\* what a wallet's hook returns; Undefined is the JavaScript undefined
HookValues == {Undefined, Some("a"), Some("b")}
\* what connector.autoConnect and connector.autoConnectOnce resolve to
ConnectorResults == BOOLEAN
Results == {Some(result) : result \in ConnectorResults}
\* what a connector call that fails rejects with
ConnectorErrors == {"UserRejected", "NoProvider"}
\* the ways a connector promise settles: resolved with one of `values`, or
\* rejected with an error
ConnectorOutcomes(values) ==
  [ok : {TRUE}, value : values, error : {""}] \cup
  [ok : {FALSE}, value : {Undefined}, error : ConnectorErrors]
\* the components that call the proxy's hooks, each with its own useMemo cell
Sites == {"Component"}

Registered == {wallets[i] : i \in DOMAIN wallets}
WalletNameInputs == Registered \cup {Unregistered}

NoHook == [name |-> "", values |-> <<>>, calls |-> <<>>, assigned |-> <<>>]

\* event: "call", or for a connector wrapper "delegated", "suppressed", "settled";
\* for useCurrentWallet "computed" (useMemo ran the lookup) or "memoized"
\* ok, result and error: how the call itself ended; delegate: how the
\* connector promise it awaited settled, for the event "settled"
NoDelegate == [ok |-> TRUE, value |-> Undefined, error |-> ""]
ProxyCall(op, event, site, wallet, ok, result, hook) ==
  [op |-> op, event |-> event, site |-> site, wallet |-> wallet, ok |-> ok,
   result |-> result, error |-> "", hook |-> hook, pre |-> proxyState,
   delegate |-> NoDelegate]

\* the state creator handed to persist, then the persisted state merged over it
createWalletProxyFirstWallet(walletsArg, defaultCurrentWallet, persisted) ==
  LET initial == [connectionId |-> Undefined, currentWallet |-> walletsArg[1]]
  IN IF persisted = Undefined THEN initial ELSE setState(initial, Get(persisted))
createWalletProxy(walletsArg, defaultCurrentWallet, persisted) ==
  LET initial == [connectionId |-> Undefined,
                  currentWallet |-> IF defaultCurrentWallet # ""
                                    THEN defaultCurrentWallet ELSE walletsArg[1]]
  IN IF persisted = Undefined THEN initial ELSE setState(initial, Get(persisted))

InitProxy ==
  \E walletsArg \in WalletsInputs, defaultCurrentWallet \in DefaultCurrentWalletInputs,
     persisted \in PersistedInputs :
    /\ wallets = walletsArg
    /\ storage = persisted
    /\ memo = [site \in Sites |-> Undefined]
    /\ held = [site \in Sites |-> Undefined]
    /\ inFlight = EmptyBag
    /\ raced = "no"
    /\ clock = 1
    /\ IF Len(walletsArg) = 0
       THEN \* if (!wallets.length) throw
            /\ proxy = "threw"
            /\ proxyState = [connectionId |-> Undefined, currentWallet |-> ""]
       ELSE /\ proxy = "created"
            /\ proxyState = createWalletProxy(walletsArg, defaultCurrentWallet, persisted)
    /\ lastDone = IF proxyState.connectionId # Undefined THEN "connect" ELSE "none"
    /\ proxyLast = [op |-> "createWalletProxy", event |-> "call", site |-> "",
                    wallet |-> defaultCurrentWallet, ok |-> Len(walletsArg) > 0,
                    result |-> persisted, error |-> "", hook |-> NoHook, pre |-> proxyState,
                    delegate |-> NoDelegate]

\* useStore.setState(partial) under the persist middleware: merge, then save
Persist(state) == Some(state)

\* useStore.setState({ currentWallet })
CurrentWalletReplaces(state, currentWallet) ==
  [currentWallet |-> currentWallet, connectionId |-> Undefined]
CurrentWalletSet(state, currentWallet) ==
  setState(state, [currentWallet |-> currentWallet])

setCurrentWallet(currentWallet) ==
  /\ proxy = "created"
  /\ currentWallet \in WalletNameInputs
  /\ proxyState' = CurrentWalletSet(proxyState, currentWallet)
  /\ storage' = Persist(proxyState')
  /\ proxyLast' = ProxyCall("setCurrentWallet", "call", "", currentWallet, TRUE, Undefined, NoHook)
  /\ UNCHANGED <<storeVars, wallets, proxy, memo, held, inFlight, raced, clock, lastDone>>

\* wallets.find((w) => w.name === currentWalletName)
Find(currentWalletName) ==
  IF \E i \in DOMAIN wallets : wallets[i] = currentWalletName
  THEN Some(wallets[CHOOSE i \in DOMAIN wallets :
                      /\ wallets[i] = currentWalletName
                      /\ \A j \in 1..(i - 1) : wallets[j] # currentWalletName])
  ELSE Undefined

\* useCurrentWallet called by the component `site`: the wallet it returns, the
\* store state it leaves and whether useMemo ran its function (the dependency
\* differs from the one of the component's previous call, or there was none)
CurrentWalletRead(site) ==
  LET currentWalletName == proxyState.currentWallet
      cell == memo[site]
  IN IF cell # Undefined /\ Get(cell).dep = currentWalletName
     THEN [wallet |-> Get(cell).value, state |-> proxyState, ran |-> FALSE,
           repaired |-> FALSE]
     ELSE LET found == Find(currentWalletName)
          IN [wallet |-> IF found # Undefined THEN Get(found) ELSE wallets[1],
              state |-> IF found = Undefined
                        THEN CurrentWalletSet(proxyState, wallets[1])
                        ELSE proxyState,
              ran |-> TRUE,
              repaired |-> found = Undefined]

\* the effect of a useCurrentWallet call on the store and on the useMemo cell
ReadsCurrentWallet(site, read) ==
  /\ proxyState' = read.state
  /\ storage' = IF read.repaired THEN Persist(read.state) ELSE storage
  /\ memo' = [memo EXCEPT ![site] =
                Some([dep |-> proxyState.currentWallet, value |-> read.wallet])]

useCurrentWallet(site) ==
  /\ proxy = "created"
  /\ LET read == CurrentWalletRead(site)
     IN /\ ReadsCurrentWallet(site, read)
        /\ proxyLast' = ProxyCall("useCurrentWallet",
                                  IF read.ran THEN "computed" ELSE "memoized",
                                  site, read.wallet, TRUE, Undefined, NoHook)
  /\ UNCHANGED <<storeVars, wallets, proxy, held, inFlight, raced, clock, lastDone>>

useConnectionId ==
  /\ proxy = "created"
  /\ proxyLast' = ProxyCall("useConnectionId", "call", "", "", TRUE,
                            proxyState.connectionId, NoHook)
  /\ UNCHANGED <<storeVars, wallets, proxy, proxyState, storage, memo, held, inFlight, raced, clock, lastDone>>

\* the component is unmounted: its useMemo cell and the function it held are gone
unmount(site) ==
  /\ proxy = "created"
  /\ memo[site] # Undefined \/ held[site] # Undefined
  /\ memo' = [memo EXCEPT ![site] = Undefined]
  /\ held' = [held EXCEPT ![site] = Undefined]
  /\ proxyLast' = ProxyCall("unmount", "call", site, "", TRUE, Undefined, NoHook)
  /\ UNCHANGED <<storeVars, wallets, proxy, proxyState, storage, inFlight, raced, clock, lastDone>>

(***************************************************************************)
(* getCombinedHooks                                                        *)
(***************************************************************************)
\* for (const wallet of wallets) { value = hookFn(...args); if (...) hookFnOutput = value }
RECURSIVE CombinedHookLoop(_, _, _, _, _)
CombinedHookLoop(i, hookName, currentWalletName, values, acc) ==
  IF i > Len(wallets) THEN acc
  ELSE LET value == values[i]
           isCurrent == wallets[i] = currentWalletName
       IN CombinedHookLoop(i + 1, hookName, currentWalletName, values,
            [calls |-> Append(acc.calls, [wallet |-> wallets[i], hook |-> hookName]),
             hookFnOutput |-> IF isCurrent THEN value ELSE acc.hookFnOutput,
             assigned |-> IF isCurrent THEN Append(acc.assigned, wallets[i])
                          ELSE acc.assigned])

\* a combinator that calls the hook of the current wallet alone
CombinedHookCurrentOnly(hookName, currentWalletName, values) ==
  LET current == {i \in DOMAIN wallets : wallets[i] = currentWalletName}
  IN IF current = {}
     THEN [calls |-> <<>>, hookFnOutput |-> Undefined, assigned |-> <<>>]
     ELSE LET i == CHOOSE i \in current : TRUE
          IN [calls |-> <<[wallet |-> wallets[i], hook |-> hookName]>>,
              hookFnOutput |-> values[i], assigned |-> <<wallets[i]>>]

\* combinedHooks[hookName](...args)
CombinedHook(hookName, currentWalletName, values) ==
  CombinedHookLoop(1, hookName, currentWalletName, values,
                   [calls |-> <<>>, hookFnOutput |-> Undefined, assigned |-> <<>>])

combinedHook(hookName, values) ==
  /\ proxy = "created"
  /\ LET out == CombinedHook(hookName, proxyState.currentWallet, values)
     IN proxyLast' = ProxyCall("combinedHook", "call", "", proxyState.currentWallet, TRUE,
                               out.hookFnOutput,
                               [name |-> hookName, values |-> values, calls |-> out.calls,
                                assigned |-> out.assigned])
  /\ UNCHANGED <<storeVars, wallets, proxy, proxyState, storage, memo, held, inFlight, raced, clock, lastDone>>

(***************************************************************************)
(* useConnect, useAutoConnect, useAutoConnectOnce, useDisconnect           *)
(***************************************************************************)
\* a hook called by the component `site`: const wallet = useCurrentWallet(), and
\* the async function it returns, bound to that wallet
Accessor(hook, op, site) ==
  /\ proxy = "created"
  /\ LET read == CurrentWalletRead(site)
     IN /\ ReadsCurrentWallet(site, read)
        /\ held' = [held EXCEPT ![site] =
                      Some([op |-> op, wallet |-> read.wallet,
                            currentWallet |-> proxyState.currentWallet])]
        /\ proxyLast' = ProxyCall(hook, "call", site, read.wallet, TRUE, Undefined, NoHook)
  /\ UNCHANGED <<storeVars, wallets, proxy, inFlight, raced, clock, lastDone>>

useConnect(site) == Accessor("useConnect", "connect", site)
useAutoConnect(site) == Accessor("useAutoConnect", "autoConnect", site)
useAutoConnectOnce(site) == Accessor("useAutoConnectOnce", "autoConnectOnce", site)
useDisconnect(site) == Accessor("useDisconnect", "disconnect", site)

\* the wallet whose connector the function calls: the `wallet` its closure
\* captured when the hook ran, whatever the store says by now
WalletAtInvocation(closure, state) ==
  IF state.currentWallet \in Registered THEN state.currentWallet ELSE wallets[1]
BoundWallet(closure, state) == closure.wallet

\* connect and autoConnect write a connectionId, disconnect removes it
Marks(op) == op \in {"connect", "autoConnect"}
Opposite(op) ==
  IF Marks(op) THEN {"disconnect"}
  ELSE IF op = "disconnect" THEN {"connect", "autoConnect"} ELSE {}
\* the call of `op` starts with a call of its opposite awaiting its connector
Races(op) == \E other \in Opposite(op) : BagIn(other, inFlight)

\* the function is invoked and awaits wallet.connector[op](...args)
Delegates(op, site) ==
  /\ proxy = "created"
  /\ held[site] # Undefined
  /\ Get(held[site]).op = op
  /\ BagCardinality(inFlight) < MaxInFlight
  /\ inFlight' = inFlight (+) SetToBag({op})
  /\ raced' = IF op = "autoConnectOnce" THEN raced
              ELSE IF ~Races(op) THEN "no"
              ELSE IF Marks(op) THEN "disconnectFirst" ELSE "connectFirst"
  /\ proxyLast' = ProxyCall(op, "delegated", site, BoundWallet(Get(held[site]), proxyState),
                            TRUE, Undefined, NoHook)
  /\ UNCHANGED <<storeVars, wallets, proxy, proxyState, storage, memo, held, clock, lastDone>>

connect(site) == Delegates("connect", site)
autoConnect(site) == Delegates("autoConnect", site)
disconnect(site) == Delegates("disconnect", site)

\* if (!connectionId)
FalsyOnlyZero(connectionId) == connectionId # Undefined /\ Get(connectionId) = 0
Falsy(connectionId) == connectionId = Undefined \/ Get(connectionId) = 0

autoConnectOnce(site) ==
  IF held[site] # Undefined /\ Falsy(proxyState.connectionId)
  THEN /\ proxy = "created"
       /\ Get(held[site]).op = "autoConnectOnce"
       /\ proxyLast' = ProxyCall("autoConnectOnce", "suppressed", site,
                                 Get(held[site]).wallet, TRUE, Some(FALSE), NoHook)
       /\ UNCHANGED <<storeVars, wallets, proxy, proxyState, storage, memo, held, inFlight, raced, clock,
                      lastDone>>
  ELSE Delegates("autoConnectOnce", site)

\* the statements after the await, reached when the connector call resolved
\* (ok) and skipped when it rejected
ConnectNeverMarks(state, ok, now) == state
ConnectAlwaysMarks(state, ok, now) == setState(state, [connectionId |-> Some(now)])
ConnectResumes(state, ok, now) ==
  IF ok THEN setState(state, [connectionId |-> Some(now)]) ELSE state

\* const result = await ...; setState({ connectionId: Date.now() }): the
\* result is not looked at
AutoConnectMarksActiveSession(state, delegate, now) ==
  IF delegate.ok /\ delegate.value = Some(TRUE)
  THEN setState(state, [connectionId |-> Some(now)]) ELSE state
AutoConnectResumes(state, delegate, now) ==
  IF delegate.ok THEN setState(state, [connectionId |-> Some(now)]) ELSE state

AutoConnectOnceClears(state, ok) ==
  IF ok THEN setState(state, [connectionId |-> Undefined]) ELSE state
AutoConnectOnceResumes(state, ok) == state

DisconnectKeepsConnectionId(state, ok) == state
DisconnectYieldsToLaterConnect(state, ok) ==
  IF ok /\ raced # "disconnectFirst"
  THEN setState(state, [connectionId |-> Undefined]) ELSE state
DisconnectResumes(state, ok) ==
  IF ok THEN setState(state, [connectionId |-> Undefined]) ELSE state

\* how the promise of the wrapper settles, given how the connector's did: a
\* rejection passes through the await uncaught; connect has no return
\* statement, the other three return what they awaited
Returns(op, delegate) ==
  IF delegate.ok /\ op = "connect" THEN NoDelegate ELSE delegate

\* a pending connector call of `op` settles as `delegate` says
Settles(op, delegate, state) ==
  /\ proxy = "created"
  /\ BagIn(op, inFlight)
  /\ inFlight' = inFlight (-) SetToBag({op})
  /\ proxyState' = state
  /\ storage' = IF delegate.ok /\ op # "autoConnectOnce" THEN Persist(state) ELSE storage
  /\ lastDone' = IF delegate.ok /\ op # "autoConnectOnce" THEN op ELSE lastDone
  /\ proxyLast' = [ProxyCall(op, "settled", "", "", Returns(op, delegate).ok,
                             Returns(op, delegate).value, NoHook)
                     EXCEPT !.error = Returns(op, delegate).error, !.delegate = delegate]
  /\ UNCHANGED <<storeVars, wallets, proxy, memo, held, raced, clock>>

connectSettles(delegate) ==
  Settles("connect", delegate, ConnectResumes(proxyState, delegate.ok, clock))

autoConnectSettles(delegate) ==
  Settles("autoConnect", delegate, AutoConnectResumes(proxyState, delegate, clock))

autoConnectOnceSettles(delegate) ==
  Settles("autoConnectOnce", delegate, AutoConnectOnceResumes(proxyState, delegate.ok))

disconnectSettles(delegate) ==
  Settles("disconnect", delegate, DisconnectResumes(proxyState, delegate.ok))

\* time passes: Date.now() returns a later value
tick ==
  /\ clock < MaxClock
  /\ clock' = clock + 1
  /\ UNCHANGED <<storeVars, wallets, proxy, proxyState, storage, memo, held, inFlight, raced, lastDone,
                 proxyLast>>

Init == InitStore /\ InitProxy

NextStore ==
  \/ startConnection
  \/ \E c \in closures : endConnection(c)
  \/ \E stateUpdate \in StateUpdates : update(stateUpdate)
  \/ resetState

\* the read path and the combined hooks
NextHooks ==
  \/ \E currentWallet \in WalletNameInputs : setCurrentWallet(currentWallet)
  \/ \E site \in Sites : useCurrentWallet(site)
  \/ useConnectionId
  \/ \E site \in Sites : unmount(site)
  \/ \E h \in DOMAIN HookNames, values \in [DOMAIN wallets -> HookValues] :
       combinedHook(HookNames[h], values)

\* the connector wrappers
NextConnect ==
  \/ \E currentWallet \in WalletNameInputs : setCurrentWallet(currentWallet)
  \/ \E site \in Sites : unmount(site)
  \/ \E site \in Sites : useConnect(site)
  \/ \E site \in Sites : useAutoConnect(site)
  \/ \E site \in Sites : useAutoConnectOnce(site)
  \/ \E site \in Sites : useDisconnect(site)
  \/ \E site \in Sites : connect(site)
  \/ \E site \in Sites : autoConnect(site)
  \/ \E site \in Sites : autoConnectOnce(site)
  \/ \E site \in Sites : disconnect(site)
  \/ \E delegate \in ConnectorOutcomes({Undefined}) : connectSettles(delegate)
  \/ \E delegate \in ConnectorOutcomes(Results) : autoConnectSettles(delegate)
  \/ \E delegate \in ConnectorOutcomes(Results) : autoConnectOnceSettles(delegate)
  \/ \E delegate \in ConnectorOutcomes({Undefined}) : disconnectSettles(delegate)
  \/ tick

NextProxy == NextHooks \/ NextConnect

\* the store of one wallet, beside a proxy that is constructed and left alone
InitOneStore ==
  /\ InitStore
  /\ InitProxy
  /\ Len(wallets) > 0
  /\ storage = Undefined
  /\ proxyState.currentWallet = wallets[1]

\* one proxy, the wallets' own stores left alone: its current-wallet reads and
\* combined hooks, and its connector wrappers
SpecHooks == Init /\ [][NextHooks]_vars
SpecConnect == Init /\ [][NextConnect]_vars

Next == NextStore \/ NextProxy

Spec == Init /\ [][Next]_vars

SpecStore == InitOneStore /\ [][NextStore]_vars

(***************************************************************************)
(* Properties of the wallet state store                                    *)
(***************************************************************************)
isConnecting == walletState.isConnecting
LastWas(op) == storeLast.op = op
UpdateSucceeded == LastWas("update") /\ ~storeLast.threw

\* what the contract calls an invalid update, in its own words
NotPositiveInteger(chainId) == ~(chainId \in Nat /\ chainId >= 1)
Malformed(account) == account \notin WellFormedAccounts
InvalidUpdate(stateUpdate) ==
  \/ stateUpdate.chainId # Undefined /\ NotPositiveInteger(Get(stateUpdate.chainId))
  \/ /\ stateUpdate.accounts # Undefined
     /\ \E i \in DOMAIN Get(stateUpdate.accounts) : Malformed(Get(stateUpdate.accounts)[i])

\* C1: isConnecting never gets stuck true: once every endConnection closure
\* returned by a startConnection has been invoked (start/end called in pairs),
\* isConnecting is false.
C1_NeverStuckConnecting ==
  (starts > 0 /\ invoked = 1..starts) => ~isConnecting

\* C2 (as claimed): in a history of startConnection and endConnection calls
\* only, an endConnection returned by an earlier startConnection leaves
\* isConnecting true, whether it is invoked before or after the latest one.
C2_StaleEndLeavesConnecting ==
  (LastWas("endConnection") /\ storeLast.id < starts /\ ~mutated) => isConnecting

\* C2 (amended): the endConnection of the most recent startConnection, invoked
\* with no update, resetState or startConnection in between, sets isConnecting
\* to false; an endConnection of an earlier startConnection changes nothing,
\* so that among startConnection/endConnection calls alone it leaves
\* isConnecting true when invoked before the latest one and false when
\* invoked after it.
C2_OnlyLatestEndClears ==
  LastWas("endConnection") =>
    /\ (storeLast.id = starts /\ ~storeLast.preTouched) => ~isConnecting
    /\ storeLast.id < starts => walletState = storeLast.pre
    /\ (storeLast.id < starts /\ ~mutated) =>
         (isConnecting <=> starts \notin storeLast.preInvoked)

\* a stale endConnection invoked after the latest one has cleared the flag
C2_StaleAfterLatest ==
  /\ LastWas("endConnection")
  /\ storeLast.id < starts
  /\ starts \in storeLast.preInvoked
  /\ ~mutated

\* C3: a successful update applied while isConnecting is true whose merged
\* result has chainId and accounts both defined leaves isConnecting false.
C3_UpdateClearsConnecting ==
  ( /\ UpdateSucceeded
    /\ storeLast.pre.isConnecting
    /\ walletState.chainId # Undefined
    /\ walletState.accounts # Undefined ) => ~isConnecting

\* the update supplies an empty accounts list only; chainId was set earlier
C3_EmptyAccountsCompleteTheState ==
  /\ UpdateSucceeded
  /\ storeLast.pre.isConnecting
  /\ storeLast.stateUpdate.chainId = Undefined
  /\ storeLast.stateUpdate.accounts = Some(<<>>)
  /\ storeLast.pre.chainId # Undefined
  /\ storeLast.pre.accounts = Undefined

\* C4: an update with a chainId that is not a positive integer, or with a
\* malformed account, fails and leaves chainId, accounts and isConnecting as
\* they were, also when the other supplied field is valid.
C4_InvalidUpdateChangesNothing ==
  (LastWas("update") /\ InvalidUpdate(storeLast.stateUpdate)) =>
    /\ storeLast.threw
    /\ walletState = storeLast.pre

\* a valid chainId next to a malformed account, on a store that holds data
C4_ValidChainIdBadAccount ==
  /\ LastWas("update")
  /\ storeLast.stateUpdate.chainId = Some(2)
  /\ storeLast.stateUpdate.accounts = Some(<<"0xAa", "nonsense">>)
  /\ storeLast.pre.chainId = Some(1)
  /\ storeLast.pre.isConnecting
  /\ storeLast.threw

\* C5: after a successful update the store holds the merged fields: the
\* supplied chainId or else the previous one, the supplied accounts or else
\* the previous ones.
C5_UpdateMerges ==
  UpdateSucceeded =>
    /\ walletState.chainId =
         IF storeLast.stateUpdate.chainId # Undefined
         THEN storeLast.stateUpdate.chainId ELSE storeLast.pre.chainId
    /\ walletState.accounts =
         IF storeLast.stateUpdate.accounts # Undefined
         THEN storeLast.stateUpdate.accounts ELSE storeLast.pre.accounts

\* accounts alone are supplied and the chainId set earlier is kept
C5_UnsuppliedFieldKept ==
  /\ UpdateSucceeded
  /\ storeLast.stateUpdate.chainId = Undefined
  /\ storeLast.stateUpdate.accounts # Undefined
  /\ storeLast.pre.chainId = Some(2)
  /\ walletState.chainId = Some(2)

\* the closure whose invocation storeLast records
LastClosure == CHOOSE c \in closures : c.id = storeLast.id

\* C14: an endConnection closure obtained from a startConnection that an
\* update that succeeded, or a resetState, has followed is a no-op: it leaves
\* chainId, accounts and isConnecting as they are.
C14_MutationInvalidatesPendingEnd ==
  (LastWas("endConnection") /\ LastClosure.mutationsAtStart < mutations) =>
    walletState = storeLast.pre

\* the latest startConnection was followed by an update that stored a chainId
\* and left isConnecting true; its endConnection is then invoked
C14_EndAfterPartialUpdate ==
  /\ LastWas("endConnection")
  /\ storeLast.id = starts
  /\ LastClosure.mutationsAtStart < mutations
  /\ storeLast.pre.isConnecting
  /\ storeLast.pre.chainId # Undefined
  /\ isConnecting

\* C19: an update that fails validation does not invalidate the pending
\* token: it leaves nullifier as it was, and the paired endConnection, invoked
\* after it with no update that succeeded, resetState or startConnection in
\* between, sets isConnecting to false.
C19_FailedUpdateKeepsToken ==
  /\ (LastWas("update") /\ storeLast.threw) => nullifier = storeLast.preNullifier
  /\ ( /\ LastWas("endConnection")
       /\ storeLast.id = starts
       /\ storeLast.preRejected
       /\ ~storeLast.preTouched ) => ~isConnecting

\* startConnection, an update that threw, then the paired endConnection
C19_EndAfterFailedUpdate ==
  /\ LastWas("endConnection")
  /\ storeLast.id = starts
  /\ storeLast.preRejected
  /\ ~storeLast.preTouched
  /\ storeLast.pre.isConnecting
  /\ ~isConnecting

(***************************************************************************)
(* Properties of the wallet proxy                                          *)
(***************************************************************************)
Did(op, event) == proxyLast.op = op /\ proxyLast.event = event
ReadCurrentWallet == Did("useCurrentWallet", "computed") \/ Did("useCurrentWallet", "memoized")
CalledCombinedHook == Did("combinedHook", "call")

\* C6: a call of a merged hook invokes that hook of every registered wallet
\* exactly once, in registration order, whatever currentWallet is, and returns
\* the value produced by the wallet whose name equals currentWallet.
C6_CombinedHookCallsAll ==
  CalledCombinedHook =>
    /\ proxyLast.hook.calls =
         [i \in DOMAIN wallets |-> [wallet |-> wallets[i], hook |-> proxyLast.hook.name]]
    /\ \A i \in DOMAIN wallets :
         wallets[i] = proxyLast.pre.currentWallet =>
           proxyLast.result = proxyLast.hook.values[i]

\* the second of three wallets is current and its hook alone yields "b"
C6_MiddleWalletCurrent ==
  /\ CalledCombinedHook
  /\ Len(wallets) = 3
  /\ proxyLast.pre.currentWallet = wallets[2]
  /\ proxyLast.hook.values = <<Some("a"), Some("b"), Some("a")>>
  /\ proxyLast.result = Some("b")
  /\ Len(proxyLast.hook.calls) = 3

\* C7: whatever names setCurrentWallet was given, useCurrentWallet returns a
\* registered wallet and a merged hook returns the value of a registered
\* wallet's hook, never the undefined of a wallet that was not found.
C7_NeverMissingActiveWallet ==
  /\ ReadCurrentWallet => proxyLast.wallet \in Registered
  /\ CalledCombinedHook => proxyLast.hook.assigned # <<>>

\* C8: a current-wallet read made while currentWallet is not a registered name
\* returns the first registered wallet and leaves the first registered
\* wallet's name stored as currentWallet.
C8_ReadRepairsCurrentWallet ==
  (ReadCurrentWallet /\ proxyLast.pre.currentWallet \notin Registered) =>
    /\ proxyLast.wallet = wallets[1]
    /\ proxyState.currentWallet = wallets[1]

\* C9: connectionId is unset exactly when no connect or autoConnect has
\* completed successfully so far, or the call that most recently completed
\* successfully among connect, autoConnect and disconnect is a disconnect.
C9_ConnectionIdTracksLastCompleted ==
  proxy = "created" =>
    (proxyState.connectionId = Undefined <=> lastDone \in {"none", "disconnect"})

\* a connect has completed, and now the disconnect that followed it
C9_ConnectThenDisconnect ==
  /\ Did("disconnect", "settled")
  /\ proxyLast.ok
  /\ proxyLast.pre.connectionId # Undefined
  /\ proxyState.connectionId = Undefined
  /\ storage = Undefined \/ Get(storage).connectionId = Undefined
  /\ inFlight = EmptyBag

\* C10 (as claimed): once a disconnect call has settled, connectionId is unset,
\* whether the connector's disconnect returned or failed.
C10_SettledDisconnectClears ==
  Did("disconnect", "settled") => proxyState.connectionId = Undefined

\* C10 (amended): once a disconnect call has settled, connectionId is unset if
\* the connector's disconnect returned, whatever it returned; if it failed,
\* connectionId and currentWallet are as they were before it settled.
C10_ResolvedDisconnectClears ==
  Did("disconnect", "settled") =>
    IF proxyLast.ok
    THEN proxyState.connectionId = Undefined
    ELSE proxyState = proxyLast.pre

\* a disconnect resolves while a connectionId is recorded
C10_DisconnectWhileConnected ==
  /\ Did("disconnect", "settled")
  /\ proxyLast.ok
  /\ proxyLast.pre.connectionId # Undefined

Settled(op) == Did(op, "settled")
Invoked(op) == Did(op, "delegated") \/ Did(op, "suppressed")

\* C11: autoConnectOnce invoked while connectionId is unset returns false and
\* does not call the connector's autoConnectOnce.
C11_NoAutoConnectOnceWithoutConnection ==
  (Invoked("autoConnectOnce") /\ proxyLast.pre.connectionId = Undefined) =>
    /\ Did("autoConnectOnce", "suppressed")
    /\ proxyLast.ok
    /\ proxyLast.result = Some(FALSE)

\* autoConnectOnce is invoked after a disconnect removed the connectionId
C11_SuppressedAfterDisconnect ==
  /\ Did("autoConnectOnce", "suppressed")
  /\ lastDone = "disconnect"
  /\ proxyLast.pre.connectionId = Undefined
  /\ ~BagIn("autoConnectOnce", inFlight)

\* C12: when the connector's connect or autoConnect fails, the proxy's call
\* fails with that same error and connectionId and currentWallet are as they
\* were before; connectionId is written only when the connector call succeeds.
C12_FailedConnectChangesNothing ==
  /\ ((Settled("connect") \/ Settled("autoConnect")) /\ ~proxyLast.delegate.ok) =>
       /\ ~proxyLast.ok
       /\ proxyLast.error = proxyLast.delegate.error
       /\ proxyState = proxyLast.pre
  /\ ( /\ Settled("connect") \/ Settled("autoConnect")
       /\ proxyState.connectionId # proxyLast.pre.connectionId ) => proxyLast.delegate.ok

\* the connector's connect rejects on a proxy that has no connectionId
C12_ConnectRejected ==
  /\ Settled("connect")
  /\ ~proxyLast.delegate.ok
  /\ proxyLast.error = "UserRejected"
  /\ proxyLast.pre.connectionId = Undefined
  /\ proxyState.connectionId = Undefined

Constructed == Did("createWalletProxy", "call")
\* options.defaultCurrentWallet || wallets[0].name
DefaultOrFirst == IF proxyLast.wallet # "" THEN proxyLast.wallet ELSE wallets[1]

\* C13 (as claimed): construction with zero wallets fails and yields no proxy;
\* with one or more wallets it succeeds, and the initial currentWallet is the
\* explicit default if given, otherwise the first wallet's name, with
\* connectionId unset.
C13_InitialStateIsDefault ==
  /\ Len(wallets) = 0 <=> proxy = "threw"
  /\ (Constructed /\ proxy = "created") =>
       /\ proxyState.currentWallet = DefaultOrFirst
       /\ proxyState.connectionId = Undefined

\* C13 (amended): construction with zero wallets fails and yields no proxy, so
\* no operation ever runs; with one or more wallets it succeeds, and when
\* nothing is saved under the key the initial currentWallet is the explicit
\* default if given, otherwise the first wallet's name, with connectionId
\* unset; when a record is saved under the key, currentWallet and connectionId
\* are the saved ones.
C13_InitialStateIsDefaultOrPersisted ==
  /\ Len(wallets) = 0 <=> proxy = "threw"
  /\ proxy = "threw" => Constructed
  /\ (Constructed /\ proxy = "created") =>
       IF proxyLast.result = Undefined
       THEN /\ proxyState.currentWallet = DefaultOrFirst
            /\ proxyState.connectionId = Undefined
       ELSE proxyState = Get(proxyLast.result)

\* a proxy constructed with an explicit default and nothing saved under the key
C13_ExplicitDefault ==
  /\ Constructed
  /\ proxy = "created"
  /\ proxyLast.result = Undefined
  /\ proxyLast.wallet = "WalletConnect"
  /\ proxyState.currentWallet = "WalletConnect"
  /\ wallets[1] # "WalletConnect"

\* C15: an autoConnect whose connector call resolves sets connectionId whatever
\* the connector returned, and returns that result unchanged; an
\* autoConnectOnce invoked while that autoConnect is the latest successful
\* connect, autoConnect or disconnect is not suppressed.
C15_AutoConnectMarksWhateverTheResult ==
  /\ (Settled("autoConnect") /\ proxyLast.delegate.ok) =>
       /\ proxyState.connectionId # Undefined
       /\ proxyLast.ok
       /\ proxyLast.result = proxyLast.delegate.value
  /\ (Invoked("autoConnectOnce") /\ lastDone = "autoConnect") =>
       Did("autoConnectOnce", "delegated")

\* the connector's autoConnect finds no session to restore and resolves to
\* false, on a proxy that had no connectionId
C15_NoActiveSession ==
  /\ Settled("autoConnect")
  /\ proxyLast.delegate.ok
  /\ proxyLast.delegate.value = Some(FALSE)
  /\ proxyLast.result = Some(FALSE)
  /\ proxyLast.pre.connectionId = Undefined
  /\ proxyState.connectionId # Undefined

\* C16: autoConnectOnce never modifies connectionId or currentWallet, neither
\* when it is suppressed nor when it delegates, and in the delegating branch
\* the connector's result is returned unchanged.
C16_AutoConnectOnceLeavesState ==
  proxyLast.op = "autoConnectOnce" =>
    /\ proxyState = proxyLast.pre
    /\ Settled("autoConnectOnce") =>
         /\ proxyLast.ok = proxyLast.delegate.ok
         /\ proxyLast.result = proxyLast.delegate.value
         /\ proxyLast.error = proxyLast.delegate.error

\* the connector's autoConnectOnce resolves to true
C16_DelegatedResolves ==
  /\ Settled("autoConnectOnce")
  /\ proxyLast.delegate.ok
  /\ proxyLast.delegate.value = Some(TRUE)
  /\ proxyLast.result = Some(TRUE)
  /\ proxyState.connectionId # Undefined

\* the wallet useCurrentWallet returns for a currentWallet name
Resolved(currentWalletName) ==
  IF currentWalletName \in Registered THEN currentWalletName ELSE wallets[1]

\* C17: the function returned by useConnect, useAutoConnect,
\* useAutoConnectOnce or useDisconnect delegates to the connector of the
\* wallet that was current when the hook was called, and to no other, even if
\* setCurrentWallet selected another wallet in between.
C17_BoundToWalletAtAccessorCall ==
  (\E op \in {"connect", "autoConnect", "autoConnectOnce", "disconnect"} :
      Did(op, "delegated")) =>
    proxyLast.wallet = Resolved(Get(held[proxyLast.site]).currentWallet)

\* the function is invoked after setCurrentWallet selected another registered
\* wallet
C17_InvokedAfterSwitch ==
  /\ Did("disconnect", "delegated")
  /\ proxyState.currentWallet \in Registered
  /\ proxyState.currentWallet # proxyLast.wallet
  /\ Get(held[proxyLast.site]).currentWallet = proxyLast.wallet

\* C18: setCurrentWallet(name) writes currentWallet = name for every name,
\* registered or not, and leaves connectionId unchanged.
C18_SetCurrentWalletWritesName ==
  Did("setCurrentWallet", "call") =>
    /\ proxyState.currentWallet = proxyLast.wallet
    /\ proxyState.connectionId = proxyLast.pre.connectionId

\* a name that is not registered is selected while a connectionId is recorded
C18_UnregisteredWhileConnected ==
  /\ Did("setCurrentWallet", "call")
  /\ proxyLast.wallet = Unregistered
  /\ proxyState.currentWallet = Unregistered
  /\ proxyLast.pre.currentWallet # Unregistered
  /\ proxyState.connectionId # Undefined

\* C20: when a connect or autoConnect and a disconnect were in flight at the
\* same time and the last of them to settle resolves, connectionId is defined
\* if that one is the connect or autoConnect and unset if it is the
\* disconnect, whichever of the two was invoked first.
C20_SettleOrderDecides ==
  ( /\ raced # "no"
    /\ \E op \in {"connect", "autoConnect", "disconnect"} : Settled(op)
    /\ proxyLast.delegate.ok
    /\ \A op \in {"connect", "autoConnect", "disconnect"} : ~BagIn(op, inFlight) ) =>
    (proxyState.connectionId # Undefined <=> Marks(proxyLast.op))

\* the disconnect was invoked first, the connect while it was in flight; the
\* connect resolved first and the disconnect last
C20_DisconnectInvokedFirstSettlesLast ==
  /\ raced = "disconnectFirst"
  /\ Settled("disconnect")
  /\ proxyLast.delegate.ok
  /\ lastDone = "disconnect"
  /\ proxyLast.pre.connectionId # Undefined
  /\ proxyState.connectionId = Undefined
  /\ inFlight = EmptyBag

=============================================================================
